---- MODULE Spec2Model ----
(***************************************************************************)
(* A model of target_functions/relax_fit.c, the Python binding of relax's  *)
(* relaxation-curve fitting target function: setup, func, dfunc, d2func    *)
(* and back_calc_I acting on the module's process-wide variables.          *)
(*                                                                         *)
(* Numbers.  Every number a client passes in is an integer-valued Python   *)
(* float.  What the program computes from them are sums of products of     *)
(* such numbers and of exp() at integers, so a C double is modelled by the *)
(* real number it stands for, written exactly as                           *)
(*                                                                         *)
(*       [p, d]   =   ( SUM over k in DOMAIN p of  p[k] * e^k ) / d        *)
(*                                                                         *)
(* with p a function from integer exponents to non-zero integer            *)
(* coefficients and d > 0, in lowest terms.  e is transcendental, so two   *)
(* such numbers are equal exactly when they are written the same.  The     *)
(* range of a double is modelled: exp() and every product and sum overflow *)
(* to +Inf or -Inf beyond the largest double and underflow to 0.0 below    *)
(* the smallest, and the IEEE special values follow their rules            *)
(* (0 * Inf = NaN, Inf - Inf = NaN, x + NaN = NaN).  The rounding of the   *)
(* last bits of a double that is in range is not modelled.  d = 0 encodes  *)
(* the IEEE special values (+Inf, -Inf, NaN), and d = -1 a double whose    *)
(* value the program does not determine: the contents of memory it reads   *)
(* without having written it.                                              *)
(***************************************************************************)
EXTENDS Integers, Sequences, FiniteSets

(***************************************************************************)
(* Bounds of the model.                                                    *)
(***************************************************************************)
\* the largest num_times a client passes; also the length of back_calc[]
MaxTimes == 2
\* how many setup calls of one run allocate (each one allocates five arrays)
MaxSetups == 2

\* the clients on whose behalf the module's functions are called; the
\* functions take no handle, so the client is only recorded with the call
Sessions == {"A", "B"}

VARIABLES
    num_params,      \* extern int num_params
    num_times,       \* extern int num_times
    params,          \* contents of the array params points to
    values,          \* contents of the array values points to
    sd,              \* contents of the array sd points to
    relax_times,     \* contents of the array relax_times points to
    scaling_matrix,  \* contents of the array scaling_matrix points to
    back_calc,       \* extern double back_calc[]: a static array
    ptr,             \* the five pointers: the heap block each points to, 0 = NULL
    heap,            \* the heap blocks malloc has handed out and nobody freed
    call,            \* the call that returned last: function, client, argument, result
    hist,            \* history, not program state: the clients that have set
                     \* up a session, whether func has returned since the last
                     \* setup, whether the last setup got a sequence of the
                     \* wrong length, whether every setup call so far was well
                     \* formed (six arguments, right lengths, positive sd)
    process          \* "running"; "crashed" once the process has died on an
                     \* invalid memory access; "damaged" once it has written
                     \* past the end of a heap block: from then on nothing
                     \* about it is determined and the model follows it no
                     \* further

vars == <<num_params, num_times, params, values, sd, relax_times, scaling_matrix,
          back_calc, ptr, heap, call, hist, process>>

(***************************************************************************)
(* C doubles.                                                              *)
(***************************************************************************)
Abs(x) == IF x < 0 THEN -x ELSE x

Sign(x) == IF x < 0 THEN -1 ELSE IF x > 0 THEN 1 ELSE 0

RECURSIVE Gcd(_, _)
Gcd(a, b) == IF b = 0 THEN a ELSE Gcd(b, a % b)

\* the coefficient of e^k in f
PGet(f, k) == IF k \in DOMAIN f THEN f[k] ELSE 0

\* f without its zero coefficients
Strip(f) == [k \in {j \in DOMAIN f : f[j] # 0} |-> f[k]]

\* the integer c
PConst(c) == Strip([k \in {0} |-> c])

PAdd(f, g) == Strip([k \in (DOMAIN f) \cup (DOMAIN g) |-> PGet(f, k) + PGet(g, k)])

PScale(f, c) == Strip([k \in DOMAIN f |-> c * f[k]])

\* the coefficient of e^k in f * g: the sum over i in S of f[i] * g[k - i]
RECURSIVE PConv(_, _, _, _)
PConv(S, f, g, k) ==
    IF S = {} THEN 0
    ELSE LET i == CHOOSE x \in S : TRUE
         IN  f[i] * PGet(g, k - i) + PConv(S \ {i}, f, g, k)

PMul(f, g) ==
    Strip([k \in {i + j : i \in DOMAIN f, j \in DOMAIN g} |-> PConv(DOMAIN f, f, g, k)])

\* the greatest common divisor of the coefficients f[i], i in S
RECURSIVE PGcd(_, _)
PGcd(S, f) ==
    IF S = {} THEN 0
    ELSE LET i == CHOOSE x \in S : TRUE
         IN  Gcd(Abs(f[i]), PGcd(S \ {i}, f))

\* 100000 * e^-n rounded down and rounded up
ELo(n) ==
    IF n = 0 THEN 100000
    ELSE IF n <= 11 THEN <<36787, 13533, 4978, 1831, 673, 247, 91, 33, 12, 4, 1>>[n]
    ELSE 0

EHi(n) == IF n = 0 THEN 100000 ELSE ELo(n) + 1

\* a lower (up = FALSE) or upper (up = TRUE) bound of
\* 100000 * SUM over k in S of f[k] * e^(k - m), for m >= every k in S
RECURSIVE PBound(_, _, _, _)
PBound(S, f, m, up) ==
    IF S = {} THEN 0
    ELSE LET k == CHOOSE x \in S : TRUE
             c == IF (f[k] > 0) = up THEN EHi(m - k) ELSE ELo(m - k)
         IN  f[k] * c + PBound(S \ {k}, f, m, up)

\* the sign of the real number f stands for: read off the coefficients when
\* they agree in sign, and off bounds of the value otherwise (the bounds
\* separate every value the model computes from 0)
PSign(f) ==
    IF \A k \in DOMAIN f : f[k] > 0 THEN (IF DOMAIN f = {} THEN 0 ELSE 1)
    ELSE IF \A k \in DOMAIN f : f[k] < 0 THEN -1
    ELSE LET m == CHOOSE x \in DOMAIN f : \A k \in DOMAIN f : k <= x
         IN  CHOOSE s \in {-1, 1} :
                IF s = 1 THEN PBound(DOMAIN f, f, m, FALSE) > 0
                ELSE PBound(DOMAIN f, f, m, TRUE) < 0

\* exp(n) is a finite double for the integers n <= ExpMax, and is not 0.0 for
\* the integers n >= ExpMin
ExpMax == 709
ExpMin == -745

\* e^Slack is more than any ratio between the number [p, d] and its leading
\* power of e: the coefficients and d are below 2^31, and a sum of mixed signs
\* is at least 1/100000 when PSign can tell its sign
Slack == 40

\* the number p/d, d > 0, as a double holds it: +Inf or -Inf when it lies
\* beyond the largest double, 0.0 when it lies below the smallest, itself when
\* it is in range (nothing when its leading power of e does not tell)
Store(p, d) ==
    LET s == PSign(p)
        hi == CHOOSE x \in DOMAIN p : \A k \in DOMAIN p : k <= x
    IN  IF s = 0 THEN [p |-> PConst(0), d |-> 1]
        ELSE IF hi > ExpMax + Slack THEN [p |-> PConst(s), d |-> 0]
        ELSE IF hi < ExpMin - Slack THEN [p |-> PConst(0), d |-> 1]
        ELSE CHOOSE x \in {[p |-> p, d |-> d]} :
                hi <= ExpMax - Slack /\ hi >= ExpMin + Slack

\* the double p/d; d = 0 yields +Inf, -Inf or NaN by the sign of p
Norm(p, d) ==
    IF d = 0 THEN [p |-> PConst(PSign(p)), d |-> 0]
    ELSE LET g == Gcd(PGcd(DOMAIN p, p), d)
         IN  Store([k \in DOMAIN p |-> p[k] \div g], d \div g)

D(i) == [p |-> PConst(i), d |-> 1]

Zero == D(0)
PosInf == [p |-> PConst(1), d |-> 0]
NaN == [p |-> PConst(0), d |-> 0]
\* a double the program reads without having written it: any double at all
Indeterminate == [p |-> PConst(0), d |-> -1]

IsNaN(x) == x = NaN

\* x >= 0.0 and x > 0.0 in C: false for NaN, not known of an indeterminate x
GeqZero(x) == x.d >= 0 /\ ~IsNaN(x) /\ PSign(x.p) >= 0

Positive(x) == x.d >= 0 /\ PSign(x.p) > 0

DMul(a, b) ==
    IF a.d < 0 \/ b.d < 0 THEN Indeterminate
    ELSE Norm(PMul(a.p, b.p), a.d * b.d)

DAdd(a, b) ==
    IF a.d < 0 \/ b.d < 0 THEN Indeterminate
    ELSE IF a.d = 0 /\ b.d = 0 THEN (IF a = b THEN a ELSE NaN)
    ELSE IF a.d = 0 THEN a
    ELSE IF b.d = 0 THEN b
    ELSE LET g == Gcd(a.d, b.d)
         IN  Norm(PAdd(PScale(a.p, b.d \div g), PScale(b.p, a.d \div g)),
                  (a.d \div g) * b.d)

DNeg(a) == [p |-> PScale(a.p, -1), d |-> a.d]

DSub(a, b) == DAdd(a, DNeg(b))

\* 1/x for an x without powers of e: 1/0 = +Inf, 1/Inf = 0, 1/NaN = NaN
DInv(a) ==
    IF a.d < 0 \/ IsNaN(a) THEN a
    ELSE IF a.d = 0 THEN Zero
    ELSE IF a = Zero THEN PosInf
    ELSE [p |-> PConst(Sign(a.p[0]) * a.d), d |-> Abs(a.p[0])]

\* a/b for a b without powers of e (every divisor of the program is an sd[i])
DDiv(a, b) == DMul(a, DInv(b))

\* exp(x) for an integer x: +Inf when e^x is beyond the largest double, 0.0
\* when it is below the smallest, and e^x otherwise
Exp(x) ==
    IF x.d < 0 \/ IsNaN(x) THEN x
    ELSE IF x.d = 0 THEN (IF x = PosInf THEN PosInf ELSE Zero)
    ELSE LET n == CHOOSE m \in {PGet(x.p, 0)} : x.d = 1 /\ DOMAIN x.p \subseteq {0}
         IN  IF n > ExpMax THEN PosInf
             ELSE IF n < ExpMin THEN Zero
             ELSE [p |-> [k \in {n} |-> 1], d |-> 1]

(***************************************************************************)
(* The Python objects that cross the boundary.                             *)
(***************************************************************************)
\* PySequence_GetItem(seq, i) for the C index i - 1: the element, or NULL with
\* an IndexError raised when the index is past the end
PySequence_GetItem(seq, i) ==
    IF i <= Len(seq) THEN [ok |-> TRUE, v |-> seq[i]] ELSE [ok |-> FALSE, v |-> 0]

\* PyFloat_AsDouble(element): the element's value; on NULL it raises TypeError
\* (PyErr_BadArgument) and returns -1.0
PyFloat_AsDouble(element) == IF element.ok THEN D(element.v) ELSE D(-1)

\* the C array of length n filled from the Python sequence seq, as the loops of
\* setup fill it: array[i] = PyFloat_AsDouble(PySequence_GetItem(seq, i))
FillArray(seq, n) == [i \in 1..n |-> PyFloat_AsDouble(PySequence_GetItem(seq, i))]

\* the contents of a block malloc has just returned
Uninitialised(n) == [i \in 1..n |-> Indeterminate]

\* array[i - 1] as C reads it: past the end of the block it is whatever lies
\* there
At(array, i) == IF i <= Len(array) THEN array[i] ELSE Indeterminate

\* what a function hands back to the interpreter
Py_None == [kind |-> "None", val |-> Zero, list |-> << >>]
PyNULL == [kind |-> "NULL", val |-> Zero, list |-> << >>]
PyFloat(x) == [kind |-> "float", val |-> x, list |-> << >>]
PyList(l) == [kind |-> "list", val |-> Zero, list |-> l]
\* the call never returned: the process died in it
NoReturn == [kind |-> "crash", val |-> Zero, list |-> << >>]

(***************************************************************************)
(* exponential() and chi2() are declared in exponential.h and c_chi2.h and *)
(* defined outside relax_fit.c; they are modelled from the specification.  *)
(***************************************************************************)
\* back_calc[i] = params[0] * exp(-params[1] * relax_times[i]), i < num_times,
\* written in place: the entries from num_times on keep their contents
exponential(p, t, bc, n) ==
    [i \in 1..Len(bc) |->
        IF i <= n THEN DMul(At(p, 1), Exp(DNeg(DMul(At(p, 2), At(t, i)))))
        ELSE bc[i]]

square(x) == DMul(x, x)

\* the sum over i < n of ((values[i] - back_calc[i]) / sd[i])^2, index ascending
RECURSIVE chi2sum(_, _, _, _)
chi2sum(v, s, bc, n) ==
    IF n = 0 THEN Zero
    ELSE DAdd(chi2sum(v, s, bc, n - 1),
              square(DDiv(DSub(At(v, n), bc[n]), At(s, n))))

chi2(v, s, bc, n) == chi2sum(v, s, bc, n)

(***************************************************************************)
(* The arguments clients pass.                                             *)
(***************************************************************************)
\* the number of parameters of the model exponential() evaluates: an
\* amplitude and a rate
ModelParams == 2

ValuesArg(b, len) ==
    [i \in 1..len |-> IF b = "flat" THEN 4
                      ELSE IF i = 1 THEN 8 ELSE IF i = 2 THEN 3 ELSE 1]

SdArg(b, len) ==
    [i \in 1..len |-> IF b = "good" THEN (IF i = 1 THEN 1 ELSE 2)
                      ELSE IF i = 1 THEN 0 ELSE 1]

TimesArg(len) == [i \in 1..len |-> i - 1]

ScalingArg(b, len) == [i \in 1..len |-> IF b = "amp2" /\ i = 1 THEN 2 ELSE 1]

\* by how much the length of values, sd, relax_times, scaling_matrix is off
LengthsOff ==
    { dl \in [1..4 -> {-1, 0, 1}] : Cardinality({k \in 1..4 : dl[k] # 0}) <= 1 }

NoneOff == [k \in 1..4 |-> 0]

\* the contents a client fits: the bases of values, sd and scaling_matrix
Contents ==
    { <<"flat", "good", "unit">>, <<"decay", "good", "amp2">>,
      <<"decay", "zero", "unit">> }

\* the six-argument calls of setup a client makes: every contents with the
\* right lengths, and one contents (MaxTimes points) with one
\* length off by one
SetupShapes ==
    { sh \in [np : {ModelParams}, nt : 1..MaxTimes, c : Contents, dl : LengthsOff] :
        \/ sh.dl = NoneOff
        \/ /\ sh.nt = MaxTimes
           /\ sh.c = <<"decay", "good", "amp2">> }

\* parsed: how many leading arguments PyArg_ParseTupleAndKeywords converts and
\* stores before it returns; 6 when it accepts the call
SetupArgs ==
    { [parsed |-> 6, num_params |-> sh.np, num_times |-> sh.nt,
       values |-> ValuesArg(sh.c[1], sh.nt + sh.dl[1]),
       sd |-> SdArg(sh.c[2], sh.nt + sh.dl[2]),
       relax_times |-> TimesArg(sh.nt + sh.dl[3]),
       scaling_matrix |-> ScalingArg(sh.c[3], sh.np + sh.dl[4])] :
      sh \in SetupShapes }

\* the calls of setup that PyArg_ParseTupleAndKeywords rejects: an int and then
\* an argument that is no int, as in setup(3, 'x'), and two ints with
\* arguments missing after them, as in setup(2, 2)
RejectedSetupArgs ==
    { [parsed |-> sh[1], num_params |-> sh[2], num_times |-> sh[3],
       values |-> << >>, sd |-> << >>, relax_times |-> << >>,
       scaling_matrix |-> << >>] :
      sh \in { <<1, ModelParams + 1, 0>>, <<2, ModelParams, MaxTimes>> } }

\* the arguments of func and dfunc for num_params = n: raw parameter vectors
\* of length n (an amplitude, a rate, then entries the two-parameter model
\* does not read), one of them with no amplitude and a steep growth, and,
\* for n >= 2, a vector that is too short
RawParams(n) ==
    { [k \in 1..n |-> IF k <= 2 THEN ar[k] ELSE 1] :
      ar \in { <<4, 0>>, <<4, 1>>, <<8, 1>>, <<0, -1000>> } }
    \cup (IF n >= 2 THEN { <<4>> } ELSE {})

(***************************************************************************)
(* The state after the module is loaded: the pointers are NULL, the ints   *)
(* are 0 and the static array back_calc is all zero.                       *)
(***************************************************************************)
Init ==
    /\ num_params = 0
    /\ num_times = 0
    /\ params = << >>
    /\ values = << >>
    /\ sd = << >>
    /\ relax_times = << >>
    /\ scaling_matrix = << >>
    /\ back_calc = [i \in 1..MaxTimes |-> Zero]
    /\ ptr = [params |-> 0, values |-> 0, sd |-> 0, relax_times |-> 0,
              scaling_matrix |-> 0]
    /\ heap = {}
    /\ call = [op |-> "none", session |-> "A", args |-> << >>, ret |-> Py_None,
               err |-> "none", fed |-> "none"]
    /\ hist = [constructed |-> {}, evaluated |-> FALSE, mismatch |-> FALSE,
               clean |-> TRUE]
    /\ process = "running"

(***************************************************************************)
(* setup(num_params, num_times, values, sd, relax_times, scaling_matrix)   *)
(*                                                                         *)
(* PyArg_ParseTupleAndKeywords converts the arguments one by one straight  *)
(* into &num_params and &num_times: a call it rejects returns NULL with a  *)
(* TypeError after it has stored the ints it got to, and the arrays stay   *)
(* those of the setup before.                                              *)
(***************************************************************************)
setup(s, a) ==
    LET n == Cardinality(heap)
        short == \/ Len(a.values) < a.num_times
                 \/ Len(a.sd) < a.num_times
                 \/ Len(a.relax_times) < a.num_times
                 \/ Len(a.scaling_matrix) < a.num_params
        off == \/ Len(a.values) # a.num_times
               \/ Len(a.sd) # a.num_times
               \/ Len(a.relax_times) # a.num_times
               \/ Len(a.scaling_matrix) # a.num_params
    IN  /\ process = "running"
        /\ \/ /\ a.parsed < 6
              /\ num_params' = IF a.parsed >= 1 THEN a.num_params ELSE num_params
              /\ num_times' = IF a.parsed >= 2 THEN a.num_times ELSE num_times
              /\ call' = [op |-> "setup", session |-> s, args |-> << >>,
                          ret |-> PyNULL, err |-> "TypeError", fed |-> "none"]
              /\ hist' = [hist EXCEPT !.mismatch = FALSE, !.clean = FALSE]
              /\ UNCHANGED <<params, values, sd, relax_times, scaling_matrix,
                             ptr, heap>>
           \/ /\ a.parsed = 6
              /\ n < 5 * MaxSetups
              /\ num_params' = a.num_params
              /\ num_times' = a.num_times
              /\ ptr' = [params |-> n + 1, values |-> n + 2, sd |-> n + 3,
                         relax_times |-> n + 4, scaling_matrix |-> n + 5]
              /\ heap' = heap \cup ((n + 1)..(n + 5))
              /\ params' = Uninitialised(a.num_params)
              /\ scaling_matrix' = FillArray(a.scaling_matrix, a.num_params)
              /\ values' = FillArray(a.values, a.num_times)
              /\ sd' = FillArray(a.sd, a.num_times)
              /\ relax_times' = FillArray(a.relax_times, a.num_times)
              /\ call' = [op |-> "setup", session |-> s, args |-> << >>,
                          ret |-> Py_None,
                          err |-> IF short THEN "TypeError" ELSE "none",
                          fed |-> "none"]
              /\ hist' = [constructed |-> hist.constructed \cup {s},
                          evaluated |-> FALSE,
                          mismatch |-> off,
                          clean |-> /\ hist.clean
                                    /\ ~off
                                    /\ \A i \in 1..Len(a.sd) : a.sd[i] > 0]
        /\ UNCHANGED <<back_calc, process>>

(***************************************************************************)
(* func(params): the chi-squared value                                     *)
(***************************************************************************)
\* params[] after the loop of func: the first num_params entries that lie
\* inside the block are the scaled arguments
ScaledParams(p) ==
    [i \in 1..Len(params) |->
        IF i <= num_params
        THEN DMul(PyFloat_AsDouble(PySequence_GetItem(p, i)), scaling_matrix[i])
        ELSE params[i]]

\* how a call of func ends, given the back_calc and the value it computes
\* from the entries inside the blocks:
\*  - the pointers are still NULL and there is something to store or read:
\*    the process dies;
\*  - num_params is larger than the block params points to: the loop stores
\*    past its end.  The process dies, or carries on with a damaged heap, or
\*    the store lands in the slack malloc leaves behind the block and func
\*    returns as it does otherwise;
\*  - otherwise func returns the value.
\* An argument shorter than num_params leaves the TypeError of
\* PyFloat_AsDouble(NULL) pending, and func returns the value all the same.
func_return(s, p, newbc, result) ==
    LET returned == [op |-> "func", session |-> s, args |-> p,
                     ret |-> PyFloat(result),
                     err |-> IF Len(p) < num_params THEN "TypeError" ELSE "none",
                     fed |-> "arg"]
    IN  /\ process = "running"
        /\ \/ /\ ptr.params = 0
              /\ num_params > 0 \/ num_times > 0
              /\ process' = "crashed"
              /\ call' = [returned EXCEPT !.ret = NoReturn]
              /\ UNCHANGED <<params, back_calc, hist>>
           \/ /\ ptr.params # 0
              /\ num_params > Len(params)
              /\ \/ /\ process' = "crashed"
                    /\ call' = [returned EXCEPT !.ret = NoReturn]
                    /\ UNCHANGED <<params, back_calc, hist>>
                 \/ /\ process' = "damaged"
                    /\ call' = [returned EXCEPT !.ret = PyFloat(Indeterminate)]
                    /\ params' = ScaledParams(p)
                    /\ back_calc' = [i \in 1..Len(back_calc) |->
                                        IF i <= num_times THEN Indeterminate
                                        ELSE back_calc[i]]
                    /\ hist' = [hist EXCEPT !.evaluated = TRUE]
           \/ /\ ptr.params # 0 \/ (num_params = 0 /\ num_times = 0)
              /\ params' = ScaledParams(p)
              /\ back_calc' = newbc
              /\ call' = returned
              /\ hist' = [hist EXCEPT !.evaluated = TRUE]
              /\ UNCHANGED process
        /\ UNCHANGED <<num_params, num_times, values, sd, relax_times,
                       scaling_matrix, ptr, heap>>

\* func with the back-calculation loop stopping one entry short: the last
\* entry keeps what an earlier call wrote
func_stale(s, p) ==
    LET newbc == exponential(ScaledParams(p), relax_times, back_calc, num_times - 1)
    IN  func_return(s, p, newbc, chi2(values, sd, newbc, num_times))

func(s, p) ==
    LET newbc == exponential(ScaledParams(p), relax_times, back_calc, num_times)
    IN  func_return(s, p, newbc, chi2(values, sd, newbc, num_times))

(***************************************************************************)
(* dfunc(params): the local pointer params is never set, and exponential   *)
(* reads through it.  The read either faults or yields whatever two        *)
(* doubles lie there; with num_times = 0 exponential reads nothing.        *)
(***************************************************************************)
dfunc(s, p) ==
    LET returned == [op |-> "dfunc", session |-> s, args |-> << >>, ret |-> PyNULL,
                     err |-> "none", fed |-> "uninit"]
    IN  /\ process = "running"
        /\ \/ /\ num_times = 0
              /\ call' = returned
              /\ UNCHANGED <<back_calc, process>>
           \/ /\ num_times > 0
              /\ process' = "crashed"
              /\ call' = [returned EXCEPT !.ret = NoReturn]
              /\ UNCHANGED back_calc
           \/ /\ num_times > 0
              /\ ptr.relax_times # 0
              /\ back_calc' = exponential(Uninitialised(2), relax_times, back_calc,
                                          num_times)
              /\ call' = returned
              /\ UNCHANGED process
    /\ UNCHANGED <<num_params, num_times, params, values, sd, relax_times,
                   scaling_matrix, ptr, heap, hist>>

(***************************************************************************)
(* d2func(): a stub returning 0.0                                          *)
(***************************************************************************)
d2func(s) ==
    /\ process = "running"
    /\ call' = [op |-> "d2func", session |-> s, args |-> << >>,
                ret |-> PyFloat(Zero), err |-> "none", fed |-> "none"]
    /\ UNCHANGED <<num_params, num_times, params, values, sd, relax_times,
                   scaling_matrix, back_calc, ptr, heap, hist, process>>

(***************************************************************************)
(* back_calc_I(): the first num_times entries of back_calc as a list       *)
(***************************************************************************)
back_calc_I(s) ==
    /\ process = "running"
    /\ call' = [op |-> "back_calc_I", session |-> s, args |-> << >>,
                ret |-> PyList([i \in 1..num_times |-> back_calc[i]]),
                err |-> "none", fed |-> "none"]
    /\ UNCHANGED <<num_params, num_times, params, values, sd, relax_times,
                   scaling_matrix, back_calc, ptr, heap, hist, process>>

\* one client drives the module
Clients == {"A"}

Next ==
    \/ \E s \in Clients, a \in SetupArgs \cup RejectedSetupArgs : setup(s, a)
    \/ \E s \in Clients, p \in RawParams(num_params) : func(s, p)
    \/ \E s \in Clients, p \in RawParams(num_params) : dfunc(s, p)
    \/ \E s \in Clients : d2func(s)
    \/ \E s \in Clients : back_calc_I(s)

Spec == Init /\ [][Next]_vars

\* the calls of setup whose sequences have the lengths num_times and num_params
MatchingSetupArgs ==
    { a \in SetupArgs : /\ Len(a.values) = a.num_times
                        /\ Len(a.sd) = a.num_times
                        /\ Len(a.relax_times) = a.num_times
                        /\ Len(a.scaling_matrix) = a.num_params }

\* two clients, each fitting its own curve, take turns
NextSessions ==
    \/ \E s \in Sessions, a \in MatchingSetupArgs : setup(s, a)
    \/ \E s \in Sessions, p \in RawParams(num_params) : func(s, p)
    \/ \E s \in Sessions, p \in RawParams(num_params) : dfunc(s, p)
    \/ \E s \in Sessions : d2func(s)
    \/ \E s \in Sessions : back_calc_I(s)

SpecSessions == Init /\ [][NextSessions]_vars

(***************************************************************************)
(* Properties.                                                             *)
(***************************************************************************)
\* the session data: everything setup stores
SessionData == <<num_params, num_times, values, sd, relax_times, scaling_matrix>>

\* the arrays have the lengths num_params and num_times say: true after every
\* setup call that returned None, and false once a rejected setup call has
\* stored another num_params or num_times over the arrays of the call before
SessionWellFormed ==
    /\ Len(params) = num_params
    /\ Len(scaling_matrix) = num_params
    /\ Len(values) = num_times
    /\ Len(sd) = num_times
    /\ Len(relax_times) = num_times

\* every sd[i] of the session is > 0
SdPositive == \A i \in 1..num_times : Positive(At(sd, i))

\* the value of the objective at raw parameters p for the session data alone:
\* scale, back-calculate into a fresh buffer, reduce
Objective(p) ==
    chi2(values, sd,
         exponential([k \in 1..num_params |->
                         DMul(PyFloat_AsDouble(PySequence_GetItem(p, k)),
                              At(scaling_matrix, k))],
                     relax_times, [i \in 1..MaxTimes |-> Zero], num_times),
         num_times)

\* C1: back_calc_I called on a session on which no func call has completed
\* since setup fails with NotEvaluated.  (Stated for well-formed sessions.)
C1_NotEvaluated ==
    (call.op = "back_calc_I" /\ hist.constructed # {} /\ hist.clean
                             /\ ~hist.evaluated)
        => (call.ret.kind = "NULL" /\ call.err = "NotEvaluated")

\* C2: a setup or func call made by one client leaves the session data and
\* back_calc of every other client that has set up a session unchanged.
\* (Stated for well-formed sessions.)
C2_SessionsIndependent ==
    [][ \A s \in hist.constructed :
           ( /\ hist'.clean
             /\ call'.session # s
             /\ call'.session \in hist'.constructed
             /\ call'.op \in {"setup", "func"} )
               => (SessionData' = SessionData /\ back_calc' = back_calc) ]_vars

\* C3: after any number of setup calls no live allocated array is unreachable
\* from the five pointers.  (Stated for well-formed calls of setup.)
C3_NoLeak ==
    hist.clean => heap \subseteq {ptr.params, ptr.values, ptr.sd, ptr.relax_times,
                                  ptr.scaling_matrix}

\* C4: setup called with a sequence whose length differs from num_times (or
\* num_params for scaling_matrix) fails with InvalidDimension.
C4_InvalidDimension ==
    (call.op = "setup" /\ hist.mismatch)
        => (call.ret.kind = "NULL" /\ call.err = "InvalidDimension")

\* C5: in every reachable state of a session whose arrays have the lengths
\* num_times and num_params every sd[i] is > 0, so func never divides a
\* residual by a zero sd[i].
C5_SdPositive == SessionWellFormed => SdPositive

\* C6: dfunc called on a constructed session returns a vector of num_params
\* values or an explicit error, and evaluates the model only on parameters
\* taken from its argument.  (Stated for well-formed sessions and for the
\* calls that return.)
C6_GradientOrError ==
    (call.op = "dfunc" /\ hist.constructed # {} /\ hist.clean /\ process = "running")
        => /\ \/ call.ret.kind = "list" /\ Len(call.ret.list) = num_params
              \/ call.ret.kind = "NULL" /\ call.err # "none"
           /\ call.fed = "arg"

\* C7: for a session (the arrays a setup call allocated, with the num_params
\* and num_times of that call) the value func returns is the objective of the
\* session data and the raw parameters only, whatever func, dfunc, d2func and
\* back_calc_I calls came before it.
C7_HistoryIndependent ==
    (call.op = "func" /\ SessionWellFormed)
        => /\ call.ret.kind = "float"
           /\ call.ret.val # Indeterminate
           /\ call.ret.val = Objective(call.args)

\* C7 witness: func has returned for a session of fewer than MaxTimes points
\* while back_calc still ends with an intensity an earlier call wrote.
C7_Witness ==
    /\ hist.clean
    /\ call.op = "func"
    /\ num_times >= 1
    /\ num_times < MaxTimes
    /\ back_calc[MaxTimes] # Zero
    /\ call.ret.val # Zero

\* C8: for a well-formed session (every setup call well formed, arrays of
\* the lengths num_params and num_times, every sd[i] > 0) and a parameter
\* vector of length num_params the value func returns is >= 0, and it is 0
\* exactly when back_calc[i] = values[i] for every i.
C8_NonNegativeZeroIff ==
    (call.op = "func" /\ hist.clean /\ SessionWellFormed /\ SdPositive
                      /\ Len(call.args) = num_params)
        => /\ GeqZero(call.ret.val)
           /\ (call.ret.val = Zero
                 <=> \A i \in 1..num_times : back_calc[i] = values[i])

\* C9: after func returns for a raw_params of length num_params,
\* params[k] = raw_params[k] * scaling_matrix[k] for every k < num_params, and
\* for every i < num_times back_calc[i] is a value this call computed: the
\* model at relax_times[i] with those parameters.
C9_BackCalcRefreshed ==
    (call.op = "func" /\ call.ret.kind = "float" /\ Len(call.args) = num_params)
        => /\ \A k \in 1..num_params :
                 /\ At(params, k).d >= 0
                 /\ At(params, k) = DMul(D(call.args[k]), At(scaling_matrix, k))
           /\ \A i \in 1..num_times :
                 /\ back_calc[i].d >= 0
                 /\ back_calc[i] = DMul(At(params, 1),
                                        Exp(DNeg(DMul(At(params, 2),
                                                      At(relax_times, i)))))

\* C10: a dfunc, d2func or back_calc_I call leaves back_calc unchanged, so
\* that back_calc_I returns what the most recent func call wrote.  (Stated for
\* well-formed sessions.)
C10_OnlyFuncWrites ==
    [][ (hist.clean /\ call'.op \in {"dfunc", "d2func", "back_calc_I"})
          => back_calc' = back_calc ]_vars

====
